---------------------------- MODULE Spec2Model ----------------------------
(***************************************************************************)
(* Model of libaiac's configuration loader (src/libaiac/config.go):        *)
(* LoadConfig resolves the path of the configuration file, decodes the     *)
(* TOML document into a Config, and expands environment variables in six   *)
(* fields of every backend.                                                *)
(*                                                                         *)
(* Strings are sequences of one-character strings, so that the expansion   *)
(* of "$NAME" and "${NAME}" is computed character by character, the way    *)
(* os.ExpandEnv (called by replaceEnvVar) computes it.                     *)
(***************************************************************************)
EXTENDS Integers, Sequences, FiniteSets, TLC

VARIABLES
    env,        \* the process environment: variable name -> value
    xdgOk,      \* whether the base-directory resolver can produce a path
    parentDir,  \* whether the directory of the default file exists
    files,      \* the file system: path -> [kind, doc]
    pc,         \* position of the current LoadConfig invocation
    arg,        \* LoadConfig's parameter as the caller passed it
    path,       \* LoadConfig's variable path
    conf,       \* LoadConfig's named result conf
    err,        \* LoadConfig's named result err
    todo,       \* keys the range loop of replaceEnvVars has not produced yet
    decoded,    \* history: conf as toml.DecodeFile left it
    log,        \* history: the calls made by the current invocation, in order
    outcomes    \* history: explicit path -> results returned for it so far

vars == <<env, xdgOk, parentDir, files, pc, arg, path, conf, err, todo,
          decoded, log, outcomes>>

---------------------------------------------------------------------------
(* Bounds of the model *)

\* longest string, in characters, written into a field of a probe document
MaxLen == 4

\* the characters of the probe strings: the three characters of the variable
\* syntax and one name character
Chars == {"$", "{", "}", "A"}

RECURSIVE StringsOfLen(_)
StringsOfLen(n) ==
    IF n = 0 THEN {<<>>}
    ELSE {Append(s, c) : s \in StringsOfLen(n - 1), c \in Chars}

Strings == UNION {StringsOfLen(n) : n \in 0..MaxLen}

---------------------------------------------------------------------------
(* os.ExpandEnv, as called by replaceEnvVar *)

Digits == {"0", "1", "2", "3", "4", "5", "6", "7", "8", "9"}

Letters ==
    {"a", "b", "c", "d", "e", "f", "g", "h", "i", "j", "k", "l", "m",
     "n", "o", "p", "q", "r", "s", "t", "u", "v", "w", "x", "y", "z",
     "A", "B", "C", "D", "E", "F", "G", "H", "I", "J", "K", "L", "M",
     "N", "O", "P", "Q", "R", "S", "T", "U", "V", "W", "X", "Y", "Z"}

\* the one-character names the expansion accepts after "$"
isShellSpecialVar(c) == c \in {"*", "#", "$", "@", "!", "?", "-"} \cup Digits

isAlphaNum(c) == c = "_" \/ c \in Digits \/ c \in Letters

\* the value of a variable; an undefined variable has the empty value
Getenv(name) == IF name \in DOMAIN env THEN env[name] ELSE <<>>

\* index of the first "}" of s at or after i, or 0
RECURSIVE closingBrace(_, _)
closingBrace(s, i) ==
    IF i > Len(s) THEN 0
    ELSE IF s[i] = "}" THEN i
    ELSE closingBrace(s, i + 1)

\* number of leading name characters of s, counted from index i
RECURSIVE scanAlphaNum(_, _)
scanAlphaNum(s, i) ==
    IF i <= Len(s) /\ isAlphaNum(s[i]) THEN 1 + scanAlphaNum(s, i + 1) ELSE 0

\* s is the text after a "$" (never empty): <<name, characters consumed>>
getShellName(s) ==
    IF s[1] = "{"
    THEN IF Len(s) > 2 /\ isShellSpecialVar(s[2]) /\ s[3] = "}"
         THEN <<SubSeq(s, 2, 2), 3>>
         ELSE LET i == closingBrace(s, 2) IN
              IF i = 0 THEN <<<<>>, 1>>          \* bad syntax: eat "${"
              ELSE IF i = 2 THEN <<<<>>, 2>>     \* bad syntax: eat "${}"
              ELSE <<SubSeq(s, 2, i - 1), i>>
    ELSE IF isShellSpecialVar(s[1]) THEN <<SubSeq(s, 1, 1), 1>>
    ELSE LET n == scanAlphaNum(s, 1) IN <<SubSeq(s, 1, n), n>>

\* expandOne with a "$" that no name follows dropped
expandOne_dropDollar(dollar, name, w) ==
    IF name = <<>> THEN <<>> ELSE Getenv(name)

\* expandOne with a reference to an undefined variable left in place
expandOne_undefinedKept(dollar, name, w) ==
    IF name = <<>> /\ w > 0 THEN <<>>
    ELSE IF name = <<>> THEN <<dollar>>
    ELSE IF name \in DOMAIN env THEN env[name] ELSE <<dollar>> \o name

\* what the "$" examined contributes to the buffer, given the name after it
expandOne(dollar, name, w) ==
    IF name = <<>> /\ w > 0 THEN <<>>            \* invalid syntax: eaten
    ELSE IF name = <<>> THEN <<dollar>>          \* "$" not followed by a name
    ELSE Getenv(name)

\* the loop of the expansion: i is the start of the text not yet copied,
\* j the index examined, buf the output so far
RECURSIVE ExpandLoop(_, _, _, _)
ExpandLoop(s, i, j, buf) ==
    IF j > Len(s) THEN buf \o SubSeq(s, i, Len(s))
    ELSE IF s[j] = "$" /\ j + 1 <= Len(s)
    THEN LET r == getShellName(SubSeq(s, j + 1, Len(s)))
             b == buf \o SubSeq(s, i, j - 1) \o expandOne(s[j], r[1], r[2])
         IN ExpandLoop(s, j + r[2] + 1, j + r[2] + 1, b)
    ELSE ExpandLoop(s, i, j + 1, buf)

ExpandEnv(s) == ExpandLoop(s, 1, 1, <<>>)

replaceEnvVar(s) == ExpandEnv(s)

---------------------------------------------------------------------------
(* The data model: Config and BackendConfig *)

DollarA == <<"$", "A">>                 \* "$A"
BraceA == <<"$", "{", "A", "}">>        \* "${A}"
DollarAA == <<"$", "A", "A">>           \* "$AA", a variable no environment defines
PlainA == <<"A">>                       \* "A", no variable syntax

BackendOpenAI == <<"o", "p", "e", "n", "a", "i">>

\* the six string fields replaceEnvVars expands
Fields == {"APIKey", "AWSProfile", "AWSRegion", "URL", "DefaultModel", "APIVersion"}

NoHeaders == [h \in {} |-> <<>>]

\* a header whose name and value both hold variable syntax
RefHeaders == [h \in {DollarA} |-> BraceA]

\* a BackendConfig whose field hot holds s and whose other string fields hold t
Profile(hot, s, t, ty, hdr) ==
    [Type |-> ty,
     AWSProfile |-> IF hot = "AWSProfile" THEN s ELSE t,
     AWSRegion |-> IF hot = "AWSRegion" THEN s ELSE t,
     APIKey |-> IF hot = "APIKey" THEN s ELSE t,
     APIVersion |-> IF hot = "APIVersion" THEN s ELSE t,
     URL |-> IF hot = "URL" THEN s ELSE t,
     DefaultModel |-> IF hot = "DefaultModel" THEN s ELSE t,
     ExtraHeaders |-> hdr]

NoBackends == [k \in {} |-> <<>>]

\* the zero value of Config
ZeroConfig == [Backends |-> NoBackends, DefaultBackend |-> <<>>]

---------------------------------------------------------------------------
(* The inputs: documents, files, environments *)

ProfilesA ==
    {Profile(hot, s, t, DollarA, RefHeaders) :
        hot \in Fields, s \in {BraceA, DollarAA}, t \in {<<>>, DollarA}}

ProfilesB ==
    {Profile("URL", PlainA, <<>>, BackendOpenAI, NoHeaders),
     Profile("URL", DollarA, DollarA, BackendOpenAI, NoHeaders)}

\* documents with zero, one or two backends
StructuredDocs ==
    {[backends |-> NoBackends, default_backend |-> DollarA]}
    \cup {[backends |-> [k \in {"a"} |-> pa], default_backend |-> DollarA] :
            pa \in ProfilesA}
    \cup {[backends |-> [k \in {"b"} |-> pb], default_backend |-> DollarA] :
            pb \in ProfilesB}
    \cup {[backends |-> [k \in {"a", "b"} |-> IF k = "a" THEN pa ELSE pb],
           default_backend |-> DollarA] :
            pa \in ProfilesA, pb \in ProfilesB}

\* documents with one backend whose api_key is any string up to MaxLen
ProbeDocs ==
    {[backends |-> [k \in {"a"} |-> Profile("APIKey", s, <<>>, BackendOpenAI, NoHeaders)],
      default_backend |-> <<>>] : s \in Strings}

EmptyDoc == [backends |-> NoBackends, default_backend |-> <<>>]

\* a file: absent, not a TOML document, a document with a value of the
\* wrong type next to the keys of doc, or the document doc
Missing == [kind |-> "missing", doc |-> EmptyDoc]
Invalid == [kind |-> "invalid", doc |-> EmptyDoc]
Mismatch(doc) == [kind |-> "mismatch", doc |-> doc]
Ok(doc) == [kind |-> "ok", doc |-> doc]

ExplicitPath == "p.toml"
DefaultPath == "~/.config/aiac/aiac.toml"
DefaultConfigFile == "aiac/aiac.toml"
Paths == {ExplicitPath, DefaultPath}

\* what a caller may pass to LoadConfig
Args == {"", ExplicitPath}

Envs == {[n \in {} |-> <<>>], [n \in {PlainA} |-> <<"v", "w">>]}

---------------------------------------------------------------------------
(* Errors *)

NoErr == [msg |-> "", wraps |-> ""]

\* pathError with the message of line 84
pathError_asDecode(cause) == [msg |-> "failed loading configuration", wraps |-> cause]

\* line 78
pathError(cause) == [msg |-> "failed getting default config path", wraps |-> cause]

\* line 84
decodeError(cause) == [msg |-> "failed loading configuration", wraps |-> cause]

\* the decoder's own error for a file
decodeCause(f) ==
    IF f.kind = "missing" THEN "open: no such file or directory"
    ELSE IF f.kind = "invalid" THEN "toml: expected key"
    ELSE "toml: incompatible types"

\* the resolver's own error
xdgCause == "could not create any of the following paths"

---------------------------------------------------------------------------
(* The state after construction *)

Init ==
    /\ env \in Envs
    /\ \/ \E doc \in StructuredDocs :
          \E fp \in {Missing, Invalid, Mismatch(doc), Ok(doc)}, fd \in {Missing, Ok(doc)} :
            /\ files = [q \in Paths |-> IF q = ExplicitPath THEN fp ELSE fd]
            /\ xdgOk \in IF fd.kind = "missing" THEN BOOLEAN ELSE {TRUE}
       \/ \E doc \in ProbeDocs :
            /\ files = [q \in Paths |-> IF q = ExplicitPath THEN Ok(doc) ELSE Missing]
            /\ xdgOk = TRUE
    /\ parentDir = (files[DefaultPath].kind # "missing")
    /\ pc = "idle"
    /\ arg = ""
    /\ path = ""
    /\ conf = ZeroConfig
    /\ err = NoErr
    /\ todo = {}
    /\ decoded = ZeroConfig
    /\ log = <<>>
    /\ outcomes = [a \in Args |-> {}]

---------------------------------------------------------------------------
(* LoadConfig *)

\* the first result returned for an explicit path is kept
record(o, a, r) == IF o[a] = {} THEN [o EXCEPT ![a] = {r}] ELSE o

\* a caller invokes LoadConfig(p): the named results start at their zero values
LoadConfig(p) ==
    /\ pc \in {"idle", "done"}
    /\ pc' = "resolving"
    /\ arg' = p
    /\ path' = p
    /\ conf' = ZeroConfig
    /\ err' = NoErr
    /\ todo' = {}
    /\ decoded' = ZeroConfig
    /\ log' = <<>>
    /\ UNCHANGED <<env, xdgOk, parentDir, files, outcomes>>

\* needsDefault ignoring the argument
needsDefault_always(p) == TRUE

\* line 75
needsDefault(p) == p = ""

\* lines 75-80: the default path is asked for only when path is empty
resolvePath ==
    /\ pc = "resolving"
    /\ IF needsDefault(path)
       THEN /\ log' = Append(log, [op |-> "xdg.ConfigFile", arg |-> DefaultConfigFile])
            /\ IF xdgOk
               THEN /\ path' = DefaultPath
                    /\ parentDir' = TRUE
                    /\ pc' = "decoding"
                    /\ UNCHANGED <<err, outcomes>>
               ELSE /\ err' = pathError(xdgCause)
                    /\ pc' = "done"
                    /\ outcomes' = record(outcomes, arg, [err |-> err', conf |-> conf])
                    /\ UNCHANGED <<path, parentDir>>
       ELSE /\ pc' = "decoding"
            /\ UNCHANGED <<log, path, parentDir, err, outcomes>>
    /\ UNCHANGED <<env, xdgOk, files, arg, conf, todo, decoded>>

\* what the decoder wrote through &conf when it returns no error
FullDecode(doc) == [Backends |-> doc.backends, DefaultBackend |-> doc.default_backend]

\* what the decoder may have written through &conf when it stops at a value
\* of the wrong type: any of the other keys, each completely
PartialDecodes(doc) ==
    {[Backends |-> [k \in S |-> doc.backends[k]], DefaultBackend |-> d] :
        S \in SUBSET (DOMAIN doc.backends), d \in {<<>>, doc.default_backend}}

\* afterDecodeError without the return of line 84
afterDecodeError_continue == "substituting"

\* line 84: a decode error ends the invocation
afterDecodeError == "done"

\* lines 82-85, and the call of line 88 when decoding succeeded
decodeFile ==
    /\ pc = "decoding"
    /\ log' = Append(log, [op |-> "toml.DecodeFile", arg |-> path])
    /\ LET f == files[path] IN
       IF f.kind = "ok"
       THEN /\ conf' = FullDecode(f.doc)
            /\ pc' = "substituting"
            /\ UNCHANGED <<err, outcomes>>
       ELSE /\ conf' \in IF f.kind = "mismatch" THEN PartialDecodes(f.doc) ELSE {conf}
            /\ err' = decodeError(decodeCause(f))
            /\ pc' = afterDecodeError
            /\ outcomes' = record(outcomes, arg, [err |-> err', conf |-> conf'])
    /\ decoded' = conf'
    /\ todo' = DOMAIN conf'.Backends
    /\ UNCHANGED <<env, xdgOk, parentDir, files, arg, path>>

\* one of the six statements: a non-empty field is replaced by its expansion
expandField(v) == IF v # <<>> THEN replaceEnvVar(v) ELSE v

\* substituteFields expanding Type as well
substituteFields_andType(bc) ==
    [bc EXCEPT !.APIKey = expandField(@),
               !.AWSProfile = expandField(@),
               !.AWSRegion = expandField(@),
               !.URL = expandField(@),
               !.DefaultModel = expandField(@),
               !.APIVersion = expandField(@),
               !.Type = expandField(@)]

\* lines 97-119: the body of the loop, on the loop's copy of the entry
substituteFields(bc) ==
    [bc EXCEPT !.APIKey = expandField(@),
               !.AWSProfile = expandField(@),
               !.AWSRegion = expandField(@),
               !.URL = expandField(@),
               !.DefaultModel = expandField(@),
               !.APIVersion = expandField(@)]

\* writeBack left out: the loop's copy is dropped
writeBack_discard(m, k, bc) == m

\* writeBack under another key than the one the loop produced
writeBack_rename(m, k, bc) ==
    [j \in (DOMAIN m \ {k}) \cup {"default"} |-> IF j = "default" THEN bc ELSE m[j]]

\* line 121: conf.Backends[backendName] = backendConfig
writeBack(m, k, bc) == [j \in DOMAIN m \cup {k} |-> IF j = k THEN bc ELSE m[j]]

\* lines 96-122: one iteration of the range loop; the loop produces every
\* key of the map once, in no particular order
replaceEnvVarsIter ==
    /\ pc = "substituting"
    /\ todo # {}
    /\ \E backendName \in todo :
        LET backendConfig == conf.Backends[backendName] IN
        /\ conf' = [conf EXCEPT
                      !.Backends = writeBack(@, backendName, substituteFields(backendConfig))]
        /\ todo' = todo \ {backendName}
        /\ log' = Append(log, [op |-> "replaceEnvVars.set", arg |-> backendName])
    /\ UNCHANGED <<env, xdgOk, parentDir, files, pc, arg, path, err, decoded, outcomes>>

\* lines 124 and 90: the loop is over, LoadConfig returns conf and nil
replaceEnvVarsReturn ==
    /\ pc = "substituting"
    /\ todo = {}
    /\ pc' = "done"
    /\ err' = NoErr
    /\ outcomes' = record(outcomes, arg, [err |-> err', conf |-> conf])
    /\ UNCHANGED <<env, xdgOk, parentDir, files, arg, path, conf, todo, decoded, log>>

Next ==
    \/ \E p \in Args : LoadConfig(p)
    \/ resolvePath
    \/ decodeFile
    \/ replaceEnvVarsIter
    \/ replaceEnvVarsReturn

Spec == Init /\ [][Next]_vars

\* a call that has started runs to its return: the execution is synchronous
FairSpec ==
    /\ Spec
    /\ WF_vars(resolvePath)
    /\ WF_vars(decodeFile)
    /\ WF_vars(replaceEnvVarsIter)
    /\ WF_vars(replaceEnvVarsReturn)

---------------------------------------------------------------------------
(* Vocabulary of the properties *)

\* number of calls of op the current invocation has made
Count(op) == Cardinality({i \in 1..Len(log) : log[i].op = op})

\* number of times the pass has written the entry k back
CountSet(k) ==
    Cardinality({i \in 1..Len(log) :
                    log[i].op = "replaceEnvVars.set" /\ log[i].arg = k})

\* the path the decoder has to be given for the argument of the invocation
Resolved == IF arg = "" THEN DefaultPath ELSE arg

\* the resolver can serve the invocation, and so can the decoder
ResolveOk == arg # "" \/ xdgOk
DecodeOk == ResolveOk /\ files[Resolved].kind = "ok"

\* the decoder has been called and has returned no error
DecodeSucceeded == Count("toml.DecodeFile") = 1 /\ files[path].kind = "ok"

Returned == pc = "done"
ReturnedNil == pc = "done" /\ err = NoErr

\* variable names made of the characters of the model
Names == {s \in Strings : s # <<>> /\ \A i \in 1..Len(s) : isAlphaNum(s[i])}

\* s holds a reference to a variable: "$" and a name character or a special
\* character, or "${", a non-empty name and "}"
HasVarRef(s) ==
    \E i \in 1..(Len(s) - 1) :
        /\ s[i] = "$"
        /\ \/ isAlphaNum(s[i + 1])
           \/ isShellSpecialVar(s[i + 1])
           \/ s[i + 1] = "{" /\ \E j \in (i + 3)..Len(s) : s[j] = "}"

\* s holds a "$" followed by "{", whether or not a name and "}" follow
HasOpenBrace(s) == \E i \in 1..(Len(s) - 1) : s[i] = "$" /\ s[i + 1] = "{"

---------------------------------------------------------------------------
(* C1: after a successful load every backend of the decoded document is in  *)
(* the returned map, and each of its six fields is the expansion of the     *)
(* decoded value: "$A" and "${A}" become the value of A in the environment. *)
C1_FieldsSubstituted ==
    ReturnedNil =>
        \A k \in DOMAIN decoded.Backends :
            /\ k \in DOMAIN conf.Backends
            /\ \A f \in Fields :
                LET v == decoded.Backends[k][f]
                    r == conf.Backends[k][f]
                IN /\ r = ExpandEnv(v)
                   /\ v \in {DollarA, BraceA} =>
                        r = (IF PlainA \in DOMAIN env THEN env[PlainA] ELSE <<>>)

(* C1 witness: a load of two backends has returned "vw" for "${A}" and "$A". *)
C1_Witness ==
    /\ ReturnedNil
    /\ DOMAIN decoded.Backends = {"a", "b"}
    /\ decoded.Backends["a"].APIVersion = BraceA
    /\ conf.Backends["a"].APIVersion = <<"v", "w">>
    /\ decoded.Backends["b"].APIKey = DollarA
    /\ conf.Backends["b"].APIKey = <<"v", "w">>

C3_PartialDiscarded ==
    (Returned /\ err.msg = "failed loading configuration") => conf = ZeroConfig

(* C4: the error is nil exactly when the resolver and the decoder could     *)
(* both serve the call; otherwise it is one of two different messages,      *)
(* wrapping the cause: the path message only for an empty argument, the     *)
(* decode message also when the default file does not exist.                *)
C4_ErrorKinds ==
    Returned =>
        /\ (err = NoErr) <=> DecodeOk
        /\ ~ResolveOk =>
            /\ arg = ""
            /\ err = [msg |-> "failed getting default config path", wraps |-> xdgCause]
        /\ (ResolveOk /\ ~DecodeOk) =>
            err = [msg |-> "failed loading configuration",
                   wraps |-> decodeCause(files[Resolved])]
        /\ (arg = "" /\ xdgOk /\ files[DefaultPath].kind = "missing") =>
            err.msg = "failed loading configuration"

(* C4 witness: an empty argument, no default file: the decode message.      *)
C4_Witness ==
    /\ Returned
    /\ arg = ""
    /\ xdgOk
    /\ files[DefaultPath].kind = "missing"
    /\ err = [msg |-> "failed loading configuration",
              wraps |-> "open: no such file or directory"]

\* the calls logged so far are the ones the argument of the invocation asks for
C5_PathInv ==
    /\ \A i \in 1..Len(log) :
        /\ log[i].op = "xdg.ConfigFile" => log[i].arg = DefaultConfigFile
        /\ log[i].op = "toml.DecodeFile" => log[i].arg = Resolved
    /\ (pc # "idle" /\ arg # "") =>
        /\ Count("xdg.ConfigFile") = 0
        /\ err.msg # "failed getting default config path"
        /\ pc \in {"substituting", "done"} => Count("toml.DecodeFile") = 1
    /\ (pc # "idle" /\ arg = "") =>
        /\ Count("xdg.ConfigFile") = (IF pc = "resolving" THEN 0 ELSE 1)
        /\ Count("toml.DecodeFile") =
             (IF pc \in {"substituting", "done"} /\ xdgOk THEN 1 ELSE 0)

(* C5: with a non-empty argument the resolver is not called, the directory  *)
(* of the default file is not created, no path error is returned and the    *)
(* decoder gets the argument; with an empty argument the resolver is called *)
(* once, for aiac/aiac.toml, and the decoder gets the path it returned.     *)
C5_PathResolution ==
    /\ []C5_PathInv
    /\ [][arg' # "" => parentDir' = parentDir]_vars

(* C5 witness: a load of p.toml has returned, the decoder was given p.toml, *)
(* the default directory does not exist.                                    *)
C5_Witness ==
    /\ Returned
    /\ arg = ExplicitPath
    /\ ~parentDir
    /\ log[1] = [op |-> "toml.DecodeFile", arg |-> ExplicitPath]
    /\ outcomes[""] = {}

(* C6: every returned field is a string, a reference to an undefined        *)
(* variable becomes the empty string, and once the decoder has succeeded    *)
(* the error stays nil.                                                     *)
C6_SubstitutionTotal ==
    /\ DecodeSucceeded => err = NoErr
    /\ ReturnedNil =>
        \A k \in DOMAIN decoded.Backends : \A f \in Fields :
            LET v == decoded.Backends[k][f]
                r == conf.Backends[k][f]
            IN /\ r \in Seq(Chars \cup {"v", "w"})
               /\ \A n \in Names \ DOMAIN env :
                    v \in {<<"$">> \o n, <<"$", "{">> \o n \o <<"}">>} => r = <<>>

(* C6 witness: api_key "${A}" with A undefined has been returned empty.     *)
C6_Witness ==
    /\ ReturnedNil
    /\ PlainA \notin DOMAIN env
    /\ "a" \in DOMAIN decoded.Backends
    /\ decoded.Backends["a"].APIKey = BraceA
    /\ conf.Backends["a"].APIKey = <<>>

(* C7 as stated: a field that holds no reference to a variable is returned  *)
(* as it was decoded.                                                       *)
C7_NoRefUnchanged ==
    ReturnedNil =>
        \A k \in DOMAIN decoded.Backends : \A f \in Fields :
            ~HasVarRef(decoded.Backends[k][f]) =>
                conf.Backends[k][f] = decoded.Backends[k][f]

(* C7 as amended: a field that holds no reference to a variable and no "$"  *)
(* followed by "{" is returned as it was decoded; when no field of any      *)
(* backend holds either, the returned Config is the decoded one.            *)
C7_NoSyntaxUnchanged ==
    ReturnedNil =>
        /\ \A k \in DOMAIN decoded.Backends : \A f \in Fields :
            LET v == decoded.Backends[k][f] IN
            (~HasVarRef(v) /\ ~HasOpenBrace(v)) => conf.Backends[k][f] = v
        /\ (\A k \in DOMAIN decoded.Backends : \A f \in Fields :
                LET v == decoded.Backends[k][f] IN ~HasVarRef(v) /\ ~HasOpenBrace(v))
            => conf = decoded

(* C7 witness: api_key "A$}$" has been returned as it was.                  *)
C7_Witness ==
    /\ ReturnedNil
    /\ "a" \in DOMAIN decoded.Backends
    /\ decoded.Backends["a"].APIKey = <<"A", "$", "}", "$">>
    /\ conf = decoded

\* what has been called at each position, and what has not
C8_StepInv ==
    /\ err # NoErr => pc = "done"
    /\ Count("xdg.ConfigFile") <= 1
    /\ Count("toml.DecodeFile") <= 1
    /\ pc = "resolving" => log = <<>>
    /\ pc = "decoding" => Count("toml.DecodeFile") = 0
    /\ pc = "substituting" => DecodeSucceeded
    /\ (pc = "done" /\ ~ResolveOk) => Count("toml.DecodeFile") = 0
    /\ (pc = "done" /\ ~DecodeOk) => Count("replaceEnvVars.set") = 0

\* the changes of position an invocation may make
C8_Order ==
    pc' # pc =>
        <<pc, pc'>> \in {<<"idle", "resolving">>, <<"done", "resolving">>,
                         <<"resolving", "decoding">>, <<"resolving", "done">>,
                         <<"decoding", "substituting">>, <<"decoding", "done">>,
                         <<"substituting", "done">>}

(* C8: an invocation goes resolving -> decoding -> substituting -> done,    *)
(* leaves out the steps after the first failure, calls the resolver and the *)
(* decoder at most once each, and reaches done.                             *)
C8_Sequential ==
    /\ []C8_StepInv
    /\ [][C8_Order]_vars
    /\ (pc \in {"resolving", "decoding", "substituting"}) ~> (pc = "done")

(* C8 witness: a load with an empty argument has gone through the resolver, *)
(* the decoder and two iterations of the pass.                              *)
C8_Witness ==
    /\ ReturnedNil
    /\ Len(log) = 4
    /\ log[1].op = "xdg.ConfigFile"
    /\ log[2].op = "toml.DecodeFile"
    /\ log[3].op = "replaceEnvVars.set"
    /\ log[4].op = "replaceEnvVars.set"

(* C9: during and after the pass the keys of Backends are the decoded keys, *)
(* the entries not yet produced by the loop have not been written, the      *)
(* others once; a document without backends loads with no write at all.     *)
C9_KeysPreserved ==
    (pc \in {"substituting", "done"} /\ DecodeSucceeded) =>
        /\ DOMAIN conf.Backends = DOMAIN decoded.Backends
        /\ todo \subseteq DOMAIN decoded.Backends
        /\ \A k \in DOMAIN decoded.Backends :
            CountSet(k) = (IF k \in todo THEN 0 ELSE 1)
        /\ Count("replaceEnvVars.set") = Cardinality(DOMAIN decoded.Backends \ todo)
        /\ pc = "done" => todo = {}
        /\ (pc = "done" /\ DOMAIN decoded.Backends = {}) =>
            conf = decoded /\ err = NoErr

(* C9 witness: both entries of a two-backend document written back once.    *)
C9_Witness ==
    /\ ReturnedNil
    /\ DOMAIN conf.Backends = {"a", "b"}
    /\ CountSet("a") = 1
    /\ CountSet("b") = 1
    /\ conf.Backends["a"] # decoded.Backends["a"]
    /\ conf.Backends["b"] # decoded.Backends["b"]

(* C10: what LoadConfig returns for an argument is what it returned the     *)
(* first time for that argument; the files and the environment never        *)
(* change between the calls.                                                *)
C10_SameResult ==
    Returned => outcomes[arg] = {[err |-> err, conf |-> conf]}

=============================================================================
